---------------------------- MODULE Spec2Model ----------------------------
(***************************************************************************)
(* Chatcat: the Socket.IO relay of Backend/server.js (rooms, message       *)
(* fan-out, call signalling, disconnect notification) and the client call  *)
(* life cycle of mern_chat_frontend/src/App.jsx (CallModal, ChatsPage).    *)
(*                                                                         *)
(* Optional JavaScript values (undefined / missing property) are modelled  *)
(* as sequences of length at most one: None is <<>>, Some(v) is <<v>>.     *)
(* Event payloads are records; a property that is undefined is left out of *)
(* the record, as the JSON encoding of the transport leaves it out.        *)
(***************************************************************************)
EXTENDS Integers, Sequences, FiniteSets, TLC

\* ------------------------------------------------------------------ bounds
\* The longest member list (chat.users) of a relayed message.
MaxMembers == 2
\* The calls one client places.
MaxCalls == 2
\* The ICE candidates one RTCPeerConnection gathers.
MaxCands == 1
\* The messages one client's list holds before it stops sending.
MaxSends == 2

\* ------------------------------------------------------------ value spaces
Sessions == {"s1", "s2", "s3"}
Users    == {"u1", "u2"}
Chats    == {"c1"}
\* Room names a client can pass to "setup" / "join chat".
JoinIds  == Users \cup Chats
\* The ids payloads can name: the users above, and a user none of the
\* sessions registers as (no socket is ever in its identity room).
MemberIds == Users \cup {"u3"}

None    == <<>>
Some(v) == <<v>>
IsSome(m) == Len(m) = 1
Val(m)    == m[1]

\* Sequences over S of length at most n.
SeqUpTo(S, n) == UNION {[1..k -> S] : k \in 0..n}

\* A member-list entry: a user record, or null.
UserEntries == {None} \cup {Some([_id |-> u]) : u \in MemberIds}

\* The member lists of a chat: no entry twice.
UserLists ==
    {l \in SeqUpTo(UserEntries, MaxMembers) :
        \A i, j \in 1..Len(l) : l[i] = l[j] => i = j}

\* message.chat: absent, or a chat whose users list is absent or present.
ChatValues ==
    {None, Some([users |-> None])} \cup {Some([users |-> Some(l)]) : l \in UserLists}

\* The payload of "new message": undefined, or a message record.
Messages ==
    {None} \cup
    {Some([chat |-> c, sender |-> sd, content |-> "hi"]) :
        c \in ChatValues, sd \in {None} \cup {Some([_id |-> u]) : u \in Users}}

\* The payload of "setup": undefined, a record without _id, or a user record.
UserData ==
    {None, Some([_id |-> None, name |-> "n"])}
        \cup {Some([_id |-> Some(u), name |-> "n"]) : u \in Users}

\* The eight call-control events a client sends.
CallEvents ==
    {"call-user", "call-accepted", "prepare-call", "ready-for-offer",
     "webrtc-offer", "webrtc-answer", "webrtc-ice-candidate", "end-call"}

\* The payloads App.jsx sends with each call-control event (a client never
\* addresses itself: `to` is the other party, `from` is user._id).
ToFrom == {tf \in Users \X Users : tf[1] # tf[2]}
\* A dial names any user as the caller.
DialToFrom == {tf \in Users \X MemberIds : tf[1] # tf[2]}

ClientPayloads(ev) ==
    CASE ev = "call-user" ->
           {[to |-> tf[1], from |-> tf[2], name |-> "n", callType |-> "video"] :
                tf \in DialToFrom}
      [] ev \in {"call-accepted", "prepare-call"} ->
           {[to |-> tf[1], from |-> tf[2]] : tf \in ToFrom}
      [] ev = "ready-for-offer" -> {[to |-> t] : t \in Users}
      [] ev = "webrtc-offer" ->
           {[to |-> tf[1], from |-> tf[2], offer |-> "sdp"] : tf \in ToFrom}
      [] ev = "webrtc-answer" ->
           {[to |-> tf[1], from |-> tf[2], answer |-> "sdp"] : tf \in ToFrom}
      [] ev = "webrtc-ice-candidate" ->
           {[to |-> tf[1], from |-> tf[2], candidate |-> "ice"] : tf \in ToFrom}
      [] OTHER -> {[to |-> t] : t \in Users}

\* What a session can send with a call-control event: nothing, or a payload.
CallData(ev) == {None} \cup {Some(d) : d \in ClientPayloads(ev)}

VARIABLES
    connected,   \* sockets whose connection is open
    rooms,       \* socket.rooms of every socket (its own id room included)
    delivered,   \* what the last handler pushed to each socket, in order
    last,        \* the event the relay handled last
    crashed,     \* an exception escaped a handler: the process is gone
    inbox,       \* events relayed to a client and not yet handled by it
    page,        \* ChatsPage state of a client: activeChat and the call state
    modal,       \* CallModal state of a client (meaningful while it is shown)
    sock,        \* listeners a client has left on its socket
    tasks,       \* a client's pending timers and awaited promises
    camera       \* a client's local media streams that are live (not stopped)

relayVars  == <<connected, rooms, delivered, last, crashed>>
clientVars == <<inbox, page, modal, sock, tasks, camera>>
vars == <<connected, rooms, delivered, last, crashed,
          inbox, page, modal, sock, tasks, camera>>

NoDelivery == [s \in Sessions |-> <<>>]

\* The sockets io.to(room) addresses.
Members(room) == {s \in Sessions : room \in rooms[s]}

\* Emit gone wrong: the event goes to one socket of the room, not to all.
EmitToOneSocket(d, room, ev, data) ==
    [s \in Sessions |->
        IF Members(room) # {} /\ s = CHOOSE x \in Members(room) : TRUE
            THEN Append(d[s], [ev |-> ev, data |-> data])
        ELSE d[s]]

\* io.to(room).emit(ev, data), after the deliveries d.
Emit(d, room, ev, data) ==
    [s \in Sessions |->
        IF s \in Members(room) THEN Append(d[s], [ev |-> ev, data |-> data])
        ELSE d[s]]

\* { f: data.f, ... } as it reaches the receiver.
Pick(data, fields) == [f \in fields \cap DOMAIN data |-> data[f]]


\* What a handler did: the deliveries, the console lines, and whether an
\* exception escaped it.
Done(d, lg)  == [out |-> d, log |-> lg, threw |-> FALSE]
Threw(d, lg) == [out |-> d, log |-> lg, threw |-> TRUE]

\* ------------------------------------------------------------ the handlers
\* ForEachUser gone wrong: the sender is not skipped.
RECURSIVE ForEachUserNoSkip(_, _, _, _)
ForEachUserNoSkip(users, i, message, d) ==
    IF i > Len(users) THEN Done(d, <<>>)
    ELSE IF ~IsSome(users[i]) THEN Threw(d, <<>>)
    ELSE ForEachUserNoSkip(users, i + 1, message,
                           Emit(d, Val(users[i])._id, "message received", message))

\* ForEachUser gone wrong: the loop ends at the first member nobody is
\* connected as.
RECURSIVE ForEachUserUntilAbsent(_, _, _, _)
ForEachUserUntilAbsent(users, i, message, d) ==
    IF i > Len(users) THEN Done(d, <<>>)
    ELSE IF ~IsSome(users[i]) \/ ~IsSome(message.sender)
        THEN Threw(d, <<>>)
    ELSE IF Val(users[i])._id = Val(message.sender)._id
        THEN ForEachUserUntilAbsent(users, i + 1, message, d)
    ELSE IF Members(Val(users[i])._id) = {} THEN Done(d, <<>>)
    ELSE ForEachUserUntilAbsent(users, i + 1, message,
                                Emit(d, Val(users[i])._id, "message received", message))

\* chat.users.forEach((user) => ...) from entry i on, after the deliveries d.
RECURSIVE ForEachUser(_, _, _, _)
ForEachUser(users, i, message, d) ==
    IF i > Len(users) THEN Done(d, <<>>)
    ELSE IF ~IsSome(users[i]) \/ ~IsSome(message.sender)
        THEN Threw(d, <<>>)     \* user._id / message.sender._id of undefined
    ELSE IF Val(users[i])._id = Val(message.sender)._id
        THEN ForEachUser(users, i + 1, message, d)
    ELSE ForEachUser(users, i + 1, message,
                     Emit(d, Val(users[i])._id, "message received", message))

\* socket.on("new message", (message) => ...)
OnNewMessage(m) ==
    IF ~IsSome(m) THEN Threw(NoDelivery, <<>>)      \* message.chat of undefined
    ELSE IF ~IsSome(Val(m).chat) \/ ~IsSome(Val(Val(m).chat).users)
        THEN Done(NoDelivery, <<"chat.users not defined">>)
    ELSE ForEachUser(Val(Val(Val(m).chat).users), 1, Val(m), NoDelivery)

\* SetupRoom gone wrong: no check of userData._id, the room "undefined" is
\* joined.
SetupRoomUnchecked(userData) ==
    IF IsSome(userData) /\ IsSome(Val(userData)._id)
        THEN {Val(Val(userData)._id)}
    ELSE {"undefined"}

\* socket.on("setup", (userData) => ...): the room joined, if any.
SetupRoom(userData) ==
    IF IsSome(userData) /\ IsSome(Val(userData)._id)
        THEN {Val(Val(userData)._id)}
    ELSE {}

\* The event and the payload the relay emits for a call-control event.
RelayedEvent(ev) == IF ev = "call-user" THEN "incoming-call" ELSE ev

\* RelayedData gone wrong: every event is rebuilt as { from: data.from }.
RelayedDataFromOnly(ev, data) ==
    IF ev = "call-user" THEN Pick(data, {"from", "name", "callType"})
    ELSE Pick(data, {"from"})

RelayedData(ev, data) ==
    CASE ev = "call-user" -> Pick(data, {"from", "name", "callType"})
      [] ev \in {"call-accepted", "prepare-call", "ready-for-offer"} ->
           Pick(data, {"from"})
      [] OTHER -> data

\* OnCallEvent gone wrong: io.emit(...), to every socket.
OnCallEventToAll(ev, d) ==
    IF ~IsSome(d) THEN Threw(NoDelivery, <<>>)
    ELSE Done([s \in Sessions |->
                  IF s \in connected
                      THEN <<[ev |-> RelayedEvent(ev),
                              data |-> RelayedData(ev, Val(d))]>>
                  ELSE <<>>], <<>>)

\* OnCallEvent gone wrong: a dial is dropped when the event handled before
\* it was a dial to the same identity.
OnCallEventBusy(ev, d) ==
    IF ~IsSome(d) THEN Threw(NoDelivery, <<>>)
    ELSE IF /\ ev = "call-user"
            /\ last.ev = "call-user"
            /\ IsSome(last.data)
            /\ Val(last.data).to = Val(d).to
        THEN Done(NoDelivery, <<>>)
    ELSE Done(Emit(NoDelivery, Val(d).to, RelayedEvent(ev),
                   RelayedData(ev, Val(d))), <<>>)

\* socket.on(ev, (data) => io.to(data.to).emit(...)) for the call events.
OnCallEvent(ev, d) ==
    IF ~IsSome(d) THEN Threw(NoDelivery, <<>>)          \* data.to of undefined
    ELSE Done(Emit(NoDelivery, Val(d).to, RelayedEvent(ev),
                   RelayedData(ev, Val(d))), <<>>)

\* rooms.forEach((room) => ...) of "disconnecting", over the rooms left.
RECURSIVE ForEachRoom(_, _, _)
ForEachRoom(left, s, d) ==
    IF left = {} THEN d
    ELSE LET room == CHOOSE r \in left : TRUE
         IN  ForEachRoom(left \ {room}, s,
                 IF room # s
                     THEN Emit(d, room, "peer-disconnected", [socketId |-> s])
                 ELSE d)

\* socket.on("disconnecting", () => ...)
OnDisconnecting(s) == Done(ForEachRoom(rooms[s], s, NoDelivery), <<>>)

\* ------------------------------------------------------------- the actions
\* What the handler of ev met: the room it joins was already joined by the
\* socket, or (for a dial) the event handled just before was another
\* caller's dial to the same identity.
MetBefore(ev, s, data) ==
    CASE ev = "join chat" -> data \in rooms[s]
      [] ev = "setup" -> SetupRoom(data) # {} /\ SetupRoom(data) \subseteq rooms[s]
      [] ev = "call-user" ->
           /\ IsSome(data)
           /\ last.ev = "call-user"
           /\ IsSome(last.data)
           /\ Val(last.data).to = Val(data).to
           /\ Val(last.data).from # Val(data).from
      [] OTHER -> FALSE

\* The relay has run the handler of ev, sent by s with data, with result r.
Handled(ev, s, data, r) ==
    /\ delivered' = r.out
    /\ crashed' = r.threw
    /\ last' = [ev |-> ev, src |-> s, data |-> data, log |-> r.log,
                again |-> MetBefore(ev, s, data)]
    /\ UNCHANGED clientVars

\* io.on("connection", (socket) => ...): a socket is in its own id room.
Connection(s) ==
    /\ ~crashed
    /\ s \notin connected
    /\ connected' = connected \cup {s}
    /\ rooms' = [rooms EXCEPT ![s] = {s}]
    /\ Handled("connection", s, None, Done(NoDelivery, <<"connected">>))

\* Setup gone wrong: the acknowledgement goes to the identity room, not to
\* the socket.
SetupAckToRoom(s, userData) ==
    /\ ~crashed
    /\ s \in connected
    /\ rooms' = [rooms EXCEPT ![s] = @ \cup SetupRoom(userData)]
    /\ Handled("setup", s, userData,
               IF SetupRoom(userData) = {} THEN Done(NoDelivery, <<>>)
               ELSE Done([t \in Sessions |->
                             IF t = s \/ SetupRoom(userData) \subseteq rooms[t]
                                 THEN <<[ev |-> "connected", data |-> None]>>
                             ELSE <<>>],
                         <<"connected">>))
    /\ UNCHANGED connected

\* socket.on("setup", ...): join the identity room, acknowledge to the socket.
Setup(s, userData) ==
    /\ ~crashed
    /\ s \in connected
    /\ rooms' = [rooms EXCEPT ![s] = @ \cup SetupRoom(userData)]
    /\ Handled("setup", s, userData,
               IF SetupRoom(userData) = {} THEN Done(NoDelivery, <<>>)
               ELSE Done([NoDelivery EXCEPT
                             ![s] = <<[ev |-> "connected", data |-> None]>>],
                         <<"connected">>))
    /\ UNCHANGED connected

\* JoinChat gone wrong: joining a room leaves the rooms joined before.
JoinChatOnly(s, roomId) ==
    /\ ~crashed
    /\ s \in connected
    /\ rooms' = [rooms EXCEPT ![s] = {s, roomId}]
    /\ Handled("join chat", s, roomId, Done(NoDelivery, <<"Joined chat room">>))
    /\ UNCHANGED connected

\* JoinChat gone wrong: joining a room already joined leaves it.
JoinChatToggle(s, roomId) ==
    /\ ~crashed
    /\ s \in connected
    /\ rooms' = [rooms EXCEPT ![s] = IF roomId \in @ THEN @ \ {roomId}
                                     ELSE @ \cup {roomId}]
    /\ Handled("join chat", s, roomId, Done(NoDelivery, <<"Joined chat room">>))
    /\ UNCHANGED connected

\* socket.on("join chat", (roomId) => socket.join(roomId))
JoinChat(s, roomId) ==
    /\ ~crashed
    /\ s \in connected
    /\ rooms' = [rooms EXCEPT ![s] = @ \cup {roomId}]
    /\ Handled("join chat", s, roomId, Done(NoDelivery, <<"Joined chat room">>))
    /\ UNCHANGED connected

\* NewMessage gone wrong: handling a message joins every connected socket to
\* the conversation room.
NewMessageJoins(m) ==
    /\ ~crashed
    /\ connected # {}
    /\ Handled("new message", "any", m, OnNewMessage(m))
    /\ rooms' = [s \in Sessions |->
                    IF s \in connected THEN rooms[s] \cup {"c1"} ELSE rooms[s]]
    /\ UNCHANGED connected

\* The relay handlers below never read the socket the event came in on: any
\* connected socket is the sender.
NewMessage(m) ==
    /\ ~crashed
    /\ connected # {}
    /\ Handled("new message", "any", m, OnNewMessage(m))
    /\ UNCHANGED <<connected, rooms>>

CallEvent(ev, d) ==
    /\ ~crashed
    /\ connected # {}
    /\ Handled(ev, "any", d, OnCallEvent(ev, d))
    /\ UNCHANGED <<connected, rooms>>

CallUser           == \E d \in CallData("call-user") : CallEvent("call-user", d)
CallAccepted       == \E d \in CallData("call-accepted") : CallEvent("call-accepted", d)
PrepareCall        == \E d \in CallData("prepare-call") : CallEvent("prepare-call", d)
ReadyForOffer      == \E d \in CallData("ready-for-offer") : CallEvent("ready-for-offer", d)
WebrtcOffer        == \E d \in CallData("webrtc-offer") : CallEvent("webrtc-offer", d)
WebrtcAnswer       == \E d \in CallData("webrtc-answer") : CallEvent("webrtc-answer", d)
WebrtcIceCandidate == \E d \in CallData("webrtc-ice-candidate") : CallEvent("webrtc-ice-candidate", d)
EndCall            == \E d \in CallData("end-call") : CallEvent("end-call", d)

\* The socket closes: "disconnecting" runs with socket.rooms intact, then the
\* socket leaves every room.
Disconnect(s) ==
    /\ ~crashed
    /\ s \in connected
    /\ Handled("disconnecting", s, None, OnDisconnecting(s))
    /\ connected' = connected \ {s}
    /\ rooms' = [rooms EXCEPT ![s] = {}]

\* A session description, made on a connection with or without local tracks.
Sdp(media)    == IF media THEN "sdp with media" ELSE "sdp"
HasMedia(sdp) == sdp = "sdp with media"

\* ChatsPage before any chat is opened or call placed (App.jsx 772-783):
\* `messages` is the list on screen, `sending` the flag that disables the
\* send button (1334-1339).
NoPage ==
    [activeChat |-> FALSE, show |-> FALSE, caller |-> None, callee |-> None,
     callAccepted |-> FALSE, messages |-> <<>>, sending |-> FALSE]

\* CallModal instance number gen as it mounts (App.jsx 131-145), with a fresh
\* RTCPeerConnection (153-156): `incoming` starts as !!caller. `accepted`,
\* `prepared` and `ready` record what the instance has done since it mounted:
\* a call-accepted came in, it sent prepare-call, and a ready-for-offer came
\* in after that. `sending`: the local tracks are on the connection
\* (addTrack). `tracked`: pc.ontrack (168-179) has fired on it, which it does
\* when a remote description that carries media is applied. `offered`: the
\* webrtc-offers this CallModal has emitted. `isMuted`: the state behind the
\* Mute button (141). `audioOn`: the audio tracks of localStream.current are
\* enabled, as the tracks getUserMedia returns are.
NewModal(gen, isIncoming, peer) ==
    [gen |-> gen, pcn |-> 1, remoteSet |-> FALSE, localSet |-> "none",
     gathered |-> 0, seen |-> <<>>, added |-> <<>>,
     localStream |-> "none", inCall |-> FALSE, incoming |-> isIncoming,
     peerAtMount |-> peer, mediaDenied |-> FALSE,
     accepted |-> FALSE, prepared |-> FALSE, ready |-> FALSE,
     sending |-> FALSE, tracked |-> FALSE, offered |-> 0,
     isMuted |-> FALSE, audioOn |-> TRUE]

NoModal == NewModal(0, FALSE, "none")

\* A socket with no prepare-call listener and no once("ready-for-offer").
NoSock == [prep |-> 0, once |-> <<>>]

ClientInit ==
    /\ inbox = [s \in Sessions |-> <<>>]
    /\ page = [s \in Sessions |-> NoPage]
    /\ modal = [s \in Sessions |-> NoModal]
    /\ sock = [s \in Sessions |-> NoSock]
    /\ tasks = [s \in Sessions |-> {}]
    /\ camera = [s \in Sessions |-> 0]

RelayInit ==
    /\ delivered = NoDelivery
    /\ last = [ev |-> "none", src |-> "none", data |-> None, log |-> <<>>,
               again |-> FALSE]
    /\ crashed = FALSE

Init ==
    /\ connected = {}
    /\ rooms = [s \in Sessions |-> {}]
    /\ RelayInit
    /\ ClientInit

Next ==
    \/ \E s \in Sessions : Connection(s)
    \/ \E s \in Sessions, userData \in UserData : Setup(s, userData)
    \/ \E s \in Sessions, roomId \in JoinIds : JoinChat(s, roomId)
    \/ \E m \in Messages : NewMessage(m)
    \/ CallUser
    \/ CallAccepted
    \/ PrepareCall
    \/ ReadyForOffer
    \/ WebrtcOffer
    \/ WebrtcAnswer
    \/ WebrtcIceCandidate
    \/ EndCall
    \/ \E s \in Sessions : Disconnect(s)

Spec == Init /\ [][Next]_vars


\* ------------------------------------------------------------ the clients
\* The browser clients of the call model: each holds one socket, registered
\* ("setup") under its user's id, and the users share the chat c1.
CallClients == {"s1", "s2"}
\* The user a client is signed in as (user._id): s1 is u1's, s2 is u2's, and
\* s3 is a further device, u3's where it has set up as u3 and u2's otherwise.
Account == [s1 |-> "u1", s2 |-> "u2", s3 |-> "u2"]
Ident(c) == IF "u3" \in rooms[c] THEN "u3" ELSE Account[c]

\* activeChat.users.find(u => u._id !== user._id)
OtherUser(u) == CHOOSE v \in Users : v # u

\* The relay's deliveries for the events one client step emits, in order.
RECURSIVE RelayAll(_)
RelayAll(emits) ==
    IF emits = <<>> THEN NoDelivery
    ELSE LET r    == OnCallEvent(Head(emits).ev, Some(Head(emits).data)).out
             rest == RelayAll(Tail(emits))
         IN  [s \in Sessions |-> r[s] \o rest[s]]

\* Deliveries reach the sockets in `live`; a closed socket receives nothing.
Deliver(ib, out, live) ==
    [s \in Sessions |-> IF s \in live THEN ib[s] \o out[s] ELSE ib[s]]

\* The state of client c, as the record a step rewrites.
Now(c) ==
    [ib |-> inbox[c], pg |-> page[c], md |-> modal[c], sk |-> sock[c],
     tk |-> tasks[c], cam |-> camera[c], emits |-> <<>>]

\* One step of client c: its new state n, and the relay handling n.emits.
\* A client's emit and the relay's handling of it are one step: the relay
\* handles the events of one socket in the order sent.
ClientStep(c, n) ==
    /\ inbox' = Deliver([inbox EXCEPT ![c] = n.ib], RelayAll(n.emits), connected)
    /\ page' = [page EXCEPT ![c] = n.pg]
    /\ modal' = [modal EXCEPT ![c] = n.md]
    /\ sock' = [sock EXCEPT ![c] = n.sk]
    /\ tasks' = [tasks EXCEPT ![c] = n.tk]
    /\ camera' = [camera EXCEPT ![c] = n.cam]
    /\ UNCHANGED relayVars

\* The CallModal instance gen of client c is the one on screen: its refs
\* (pc.current, localStream.current) are the live ones.
Mounted(c, gen) == page[c].show /\ modal[c].gen = gen

\* callee?._id || caller?._id
Target(pg) == IF IsSome(pg.callee) THEN Val(pg.callee) ELSE Val(pg.caller)

\* closeCall (786-791), and the unmount of CallModal that follows: the pc
\* effect's cleanup closes the connection (181-186); no cleanup stops the
\* local tracks.
CloseCall(n) ==
    [n EXCEPT !.pg = [@ EXCEPT !.show = FALSE, !.caller = None,
                               !.callee = None, !.callAccepted = FALSE],
              !.md = NoModal]

\* endCall (310-320) as built when `to` was the target: close the pc, stop
\* the tracks of localStream.current, emit end-call, onClose().
EndCallOf(n, to) ==
    CloseCall([n EXCEPT
        !.cam = IF n.md.localStream = "live" THEN @ - 1 ELSE @,
        !.emits = Append(@, [ev |-> "end-call", data |-> [to |-> to]])])

\* The event at the head of c's inbox is ev.
Receives(c, ev) ==
    /\ c \in connected
    /\ inbox[c] # <<>>
    /\ Head(inbox[c]).ev = ev

Popped(c) == [Now(c) EXCEPT !.ib = Tail(inbox[c])]
Data(c)   == Head(inbox[c]).data

\* loadMessages (902-904) of the chat opened: socket.emit("join chat", chatId),
\* handled by the relay's "join chat".
OpenChat(c) ==
    /\ c \in connected
    /\ ~page[c].activeChat
    /\ page' = [page EXCEPT ![c].activeChat = TRUE]
    /\ rooms' = [rooms EXCEPT ![c] = @ \cup {"c1"}]
    /\ UNCHANGED <<connected, delivered, last, crashed,
                   inbox, modal, sock, tasks, camera>>

\* initiateCall (793-809); the call buttons are under the modal's overlay
\* while a call is shown. Mounting CallModal registers one more prepare-call
\* listener (296-301), which nothing removes.
InitiateCallTo(c, to) ==
    /\ c \in connected
    /\ page[c].activeChat
    /\ ~page[c].show
    /\ sock[c].prep < MaxCalls
    /\ LET n == Now(c)
       IN  ClientStep(c, [n EXCEPT
               !.pg = [@ EXCEPT !.callee = Some(to), !.callAccepted = FALSE,
                                !.show = TRUE],
               !.md = NewModal(n.sk.prep + 1, IsSome(n.pg.caller), to),
               !.sk = [@ EXCEPT !.prep = @ + 1],
               !.emits = <<[ev |-> "call-user",
                            data |-> [to |-> to, from |-> Ident(c),
                                      name |-> "n", callType |-> "video"]]>>])

\* The call button of the chat with the other user of the conversation.
InitiateCall(c) == InitiateCallTo(c, OtherUser(Ident(c)))

\* handleIncomingCall (815-821). A modal already shown stays mounted; its pc
\* effect (153-187) runs again for the new caller: the old connection is
\* closed and a new one made, `incoming` and `inCall` keep their values.
HandleIncomingCall(c) ==
    /\ Receives(c, "incoming-call")
    /\ LET n  == Popped(c)
           pg == [n.pg EXCEPT !.caller = Some(Data(c).from), !.callee = None,
                              !.callAccepted = FALSE, !.show = TRUE]
       IN  IF ~n.pg.show
               THEN ClientStep(c, [n EXCEPT
                        !.pg = pg,
                        !.md = NewModal(n.sk.prep + 1, TRUE, Data(c).from),
                        !.sk = [@ EXCEPT !.prep = @ + 1]])
           ELSE ClientStep(c, [n EXCEPT
                    !.pg = pg,
                    !.md = [@ EXCEPT !.pcn = @ + 1, !.remoteSet = FALSE,
                                     !.localSet = "none", !.gathered = 0,
                                     !.seen = <<>>, !.added = <<>>,
                                     !.sending = FALSE, !.tracked = FALSE]])

\* HandleCallAccepted gone wrong: the offer is made as soon as the call is
\* accepted, without the prepare-call / ready-for-offer handshake.
HandleCallAcceptedOffers(c) ==
    /\ Receives(c, "call-accepted")
    /\ LET n == Popped(c)
           starts == /\ n.pg.show
                     /\ IsSome(n.pg.callee)
                     /\ ~n.pg.callAccepted
                     /\ ~n.md.inCall
       IN  ClientStep(c, [n EXCEPT
               !.pg = [@ EXCEPT !.callAccepted = TRUE],
               !.md = [(IF starts THEN [@ EXCEPT !.localSet = "offer"] ELSE @)
                          EXCEPT !.accepted = n.pg.show \/ @],
               !.tk = IF starts
                          THEN @ \cup {[k |-> "sendOffer", gen |-> n.md.gen,
                                        pcn |-> n.md.pcn,
                                        peer |-> Val(n.pg.callee),
                                        media |-> FALSE]}
                      ELSE @])

\* handleCallAccepted (823-825), and the accepted-call effect (323-327) when
\* callAccepted turns true under a mounted caller-side modal.
HandleCallAccepted(c) ==
    /\ Receives(c, "call-accepted")
    /\ LET n == Popped(c)
           starts == /\ n.pg.show
                     /\ IsSome(n.pg.callee)
                     /\ ~n.pg.callAccepted
                     /\ ~n.md.inCall
       IN  ClientStep(c, [n EXCEPT
               !.pg = [@ EXCEPT !.callAccepted = TRUE],
               !.md = [@ EXCEPT !.accepted = n.pg.show \/ @],
               !.tk = IF starts
                          THEN @ \cup {[k |-> "timer", gen |-> n.md.gen,
                                        pcn |-> 0, peer |-> Val(n.pg.callee)]}
                      ELSE @])

\* HandleEndCall gone wrong: the end-call is answered with an end-call.
HandleEndCallEchoes(c) ==
    /\ Receives(c, "end-call")
    /\ LET n == Popped(c)
       IN  IF n.pg.show THEN ClientStep(c, EndCallOf(n, Target(n.pg)))
           ELSE ClientStep(c, CloseCall(n))

\* HandleEndCall gone wrong: the end-call is taken and the call stays.
HandleEndCallKeeps(c) ==
    /\ Receives(c, "end-call")
    /\ ClientStep(c, Popped(c))

\* handleEndCall (827-829): closeCall only.
HandleEndCall(c) ==
    /\ Receives(c, "end-call")
    /\ ClientStep(c, CloseCall(Popped(c)))

\* HandlePrepareCall gone wrong: no ready-for-offer reply.
HandlePrepareCallSilent(c) ==
    /\ Receives(c, "prepare-call")
    /\ ClientStep(c, Popped(c))

\* The prepare-call listeners (296-301): one reply per listener registered.
HandlePrepareCall(c) ==
    /\ Receives(c, "prepare-call")
    /\ LET n == Popped(c)
       IN  ClientStep(c, [n EXCEPT
               !.emits = [i \in 1..n.sk.prep |->
                             [ev |-> "ready-for-offer",
                              data |-> [to |-> Data(c).from]]]])

\* HandleReadyForOffer gone wrong: the listeners are registered with on, not
\* once, and each one whose modal is on screen makes an offer every time.
HandleReadyForOfferOn(c) ==
    /\ Receives(c, "ready-for-offer")
    /\ LET n == Popped(c)
           mine == {i \in 1..Len(n.sk.once) : Mounted(c, n.sk.once[i].gen)}
       IN  ClientStep(c, [n EXCEPT
               !.md = [(IF mine # {} THEN [@ EXCEPT !.localSet = "offer"] ELSE @)
                          EXCEPT !.ready = (n.pg.show /\ n.md.prepared) \/ @],
               !.tk = @ \cup {[k |-> "sendOffer", gen |-> n.md.gen,
                               pcn |-> n.md.pcn, peer |-> n.sk.once[i].peer,
                               media |-> n.md.sending] :
                                  i \in mine}])

\* The once("ready-for-offer") listeners of startCall (285-289): all run and
\* are removed. One whose modal is on screen creates the offer and awaits
\* setLocalDescription; one whose modal is gone finds pc.current null.
HandleReadyForOffer(c) ==
    /\ Receives(c, "ready-for-offer")
    /\ LET n == Popped(c)
           mine == {i \in 1..Len(n.sk.once) :
                       /\ Mounted(c, n.sk.once[i].gen)
                       /\ n.md.localSet = "none"
                       /\ ~n.md.remoteSet}
       IN  ClientStep(c, [n EXCEPT
               !.sk = [@ EXCEPT !.once = <<>>],
               !.md = [(IF mine # {} THEN [@ EXCEPT !.localSet = "offer"] ELSE @)
                          EXCEPT !.ready = (n.pg.show /\ n.md.prepared) \/ @],
               !.tk = @ \cup {[k |-> "sendOffer", gen |-> n.md.gen,
                               pcn |-> n.md.pcn, peer |-> n.sk.once[i].peer,
                               media |-> n.md.sending] :
                                  i \in mine}])

\* HandleOffer gone wrong: the listener outlives its modal and goes for the
\* camera although no call is on screen.
HandleOfferAlways(c) ==
    /\ Receives(c, "webrtc-offer")
    /\ LET n == Popped(c)
       IN  ClientStep(c, [n EXCEPT
               !.tk = @ \cup {[k |-> "gumOffer", gen |-> n.md.gen,
                               pcn |-> 0, peer |-> Data(c).from]}])

\* handleOffer (210-217) up to the await of getUserMedia; no listener without
\* a modal. setRemoteDescription(offer) on a connection that holds its own
\* offer succeeds or is rejected, as the browser decides.
HandleOffer(c) ==
    /\ Receives(c, "webrtc-offer")
    /\ LET n == Popped(c)
       IN  IF ~n.pg.show THEN ClientStep(c, n)
           ELSE \E ok \in (IF n.md.localSet = "offer" THEN BOOLEAN ELSE {TRUE}) :
                   IF ok
                       THEN ClientStep(c, [n EXCEPT
                                !.md = [@ EXCEPT !.remoteSet = TRUE,
                                                 !.localSet = "none",
                                                 !.tracked =
                                                     @ \/ HasMedia(Data(c).offer)],
                                !.tk = @ \cup {[k |-> "gumOffer", gen |-> n.md.gen,
                                                pcn |-> 0, peer |-> Data(c).from]}])
                   ELSE ClientStep(c, n)

\* handleAnswer (231-244): setRemoteDescription(answer) needs a local offer.
HandleAnswer(c) ==
    /\ Receives(c, "webrtc-answer")
    /\ LET n == Popped(c)
       IN  IF n.pg.show /\ n.md.localSet = "offer" /\ ~n.md.remoteSet
               THEN ClientStep(c, [n EXCEPT
                        !.md = [@ EXCEPT !.remoteSet = TRUE, !.inCall = TRUE,
                                         !.tracked =
                                             @ \/ HasMedia(Data(c).answer)]])
           ELSE ClientStep(c, n)

\* handleCandidate (246-256): addIceCandidate is rejected while the
\* connection has no remote description; the catch logs it.
HandleCandidate(c) ==
    /\ Receives(c, "webrtc-ice-candidate")
    /\ LET n == Popped(c)
       IN  IF ~n.pg.show THEN ClientStep(c, n)
           ELSE ClientStep(c, [n EXCEPT
                    !.md = [@ EXCEPT
                        !.seen = Append(@, Data(c).candidate),
                        !.added = IF n.md.remoteSet
                                      THEN Append(@, Data(c).candidate)
                                  ELSE @]])

\* handlePeerLeave (258-260): endCall as it was when the listeners were
\* registered, at mount.
HandlePeerLeave(c) ==
    /\ Receives(c, "peer-disconnected")
    /\ LET n == Popped(c)
       IN  IF ~n.pg.show THEN ClientStep(c, n)
           ELSE ClientStep(c, EndCallOf(n, n.md.peerAtMount))

\* acceptCall (304-307), the Accept button of the incoming prompt.
AcceptCall(c) ==
    /\ c \in connected
    /\ page[c].show
    /\ modal[c].incoming
    /\ LET n == Now(c)
       IN  ClientStep(c, [n EXCEPT
               !.md = [@ EXCEPT !.incoming = FALSE],
               !.emits = <<[ev |-> "call-accepted",
                            data |-> [to |-> Val(n.pg.caller),
                                      from |-> Ident(c)]]>>])

\* toggleMute (329-332), the Mute / Unmute button, shown once the incoming
\* prompt is gone (401-438): the flag flips, and the audio tracks of
\* localStream.current, if there is a stream, get the flag's old value.
ToggleMute(c) ==
    /\ c \in connected
    /\ page[c].show
    /\ ~modal[c].incoming
    /\ LET n == Now(c)
       IN  ClientStep(c, [n EXCEPT
               !.md = [@ EXCEPT
                   !.isMuted = ~n.md.isMuted,
                   !.audioOn = IF n.md.localStream = "live"
                                   THEN n.md.isMuted
                               ELSE @]])

\* endCall (310-320) from the Decline / End Call buttons.
HangUp(c) ==
    /\ c \in connected
    /\ page[c].show
    /\ ClientStep(c, EndCallOf(Now(c), Target(page[c])))

\* StartCall gone wrong: the timer gives the call up.
StartCallTimesOut(c) ==
    /\ c \in connected
    /\ \E t \in tasks[c] :
        /\ t.k = "timer"
        /\ ClientStep(c, CloseCall([Now(c) EXCEPT !.tk = @ \ {t}]))

\* The 100 ms timer of the accepted-call effect fires: startCall (276-278)
\* up to the await of getUserMedia.
StartCall(c) ==
    /\ c \in connected
    /\ \E t \in tasks[c] :
        /\ t.k = "timer"
        /\ ClientStep(c, [Now(c) EXCEPT
               !.tk = (@ \ {t}) \cup {[t EXCEPT !.k = "gumStart"]}])

\* getUserMedia settles in startCall (278-292). With the stream: the tracks
\* go to pc.current (null once the modal is gone: the catch logs), then
\* prepare-call and the once listener. Denied: the catch logs.
StartCallMedia(c) ==
    /\ c \in connected
    /\ \E t \in tasks[c], granted \in BOOLEAN :
        /\ t.k = "gumStart"
        /\ LET n == [Now(c) EXCEPT !.tk = @ \ {t}]
           IN  IF granted /\ Mounted(c, t.gen)
                   THEN ClientStep(c, [n EXCEPT
                            !.cam = @ + 1,
                            !.md = [@ EXCEPT !.localStream = "live",
                                             !.audioOn = TRUE,
                                             !.sending = TRUE,
                                             !.prepared = TRUE],
                            !.sk = [@ EXCEPT !.once =
                                       Append(@, [gen |-> t.gen, peer |-> t.peer])],
                            !.emits = <<[ev |-> "prepare-call",
                                         data |-> [to |-> t.peer,
                                                   from |-> Ident(c)]]>>])
               ELSE IF granted
                   THEN ClientStep(c, [n EXCEPT !.cam = @ + 1])
               ELSE IF Mounted(c, t.gen)
                   THEN ClientStep(c, [n EXCEPT
                            !.md = [@ EXCEPT !.mediaDenied = TRUE]])
               ELSE ClientStep(c, n)

\* getUserMedia settles in handleOffer (215-223). With the stream: addTrack,
\* createAnswer (needs the remote offer on pc.current), then the await of
\* setLocalDescription. Denied, or any of these throwing: the catch logs.
HandleOfferMedia(c) ==
    /\ c \in connected
    /\ \E t \in tasks[c], granted \in BOOLEAN :
        /\ t.k = "gumOffer"
        /\ LET n == [Now(c) EXCEPT !.tk = @ \ {t}]
           IN  IF granted /\ Mounted(c, t.gen)
                   THEN IF n.md.remoteSet /\ n.md.localSet = "none"
                            THEN ClientStep(c, [n EXCEPT
                                     !.cam = @ + 1,
                                     !.md = [@ EXCEPT !.localStream = "live",
                                                      !.audioOn = TRUE,
                                                      !.sending = TRUE,
                                                      !.localSet = "answer"],
                                     !.tk = @ \cup {[k |-> "sendAnswer",
                                                     gen |-> t.gen,
                                                     pcn |-> n.md.pcn,
                                                     peer |-> t.peer]}])
                        ELSE ClientStep(c, [n EXCEPT
                                 !.cam = @ + 1,
                                 !.md = [@ EXCEPT !.localStream = "live",
                                                  !.audioOn = TRUE,
                                                  !.sending = TRUE]])
               ELSE IF granted
                   THEN ClientStep(c, [n EXCEPT !.cam = @ + 1])
               ELSE IF Mounted(c, t.gen)
                   THEN ClientStep(c, [n EXCEPT
                            !.md = [@ EXCEPT !.mediaDenied = TRUE]])
               ELSE ClientStep(c, n)

\* setLocalDescription(offer) settles (287-288): the offer goes out, unless
\* the connection was closed meanwhile.
SendOffer(c) ==
    /\ c \in connected
    /\ \E t \in tasks[c] :
        /\ t.k = "sendOffer"
        /\ LET n == [Now(c) EXCEPT !.tk = @ \ {t}]
           IN  IF Mounted(c, t.gen) /\ modal[c].pcn = t.pcn
                   THEN ClientStep(c, [n EXCEPT
                            !.md = [@ EXCEPT !.offered = @ + 1],
                            !.emits = <<[ev |-> "webrtc-offer",
                                         data |-> [to |-> t.peer,
                                                   from |-> Ident(c),
                                                   offer |-> Sdp(t.media)]]>>])
               ELSE ClientStep(c, n)

\* setLocalDescription(answer) settles (223-225): the answer goes out and
\* inCall turns true, unless the connection was closed meanwhile.
SendAnswer(c) ==
    /\ c \in connected
    /\ \E t \in tasks[c] :
        /\ t.k = "sendAnswer"
        /\ LET n == [Now(c) EXCEPT !.tk = @ \ {t}]
           IN  IF Mounted(c, t.gen) /\ modal[c].pcn = t.pcn
                   THEN ClientStep(c, [n EXCEPT
                            !.md = [@ EXCEPT !.inCall = TRUE],
                            !.emits = <<[ev |-> "webrtc-answer",
                                         data |-> [to |-> t.peer,
                                                   from |-> Ident(c),
                                                   answer |-> Sdp(TRUE)]]>>])
               ELSE ClientStep(c, n)

\* pc.onicecandidate (158-166): gathering runs from the moment a local
\* description is being set.
IceCandidate(c) ==
    /\ c \in connected
    /\ page[c].show
    /\ modal[c].localSet # "none"
    /\ modal[c].gathered < MaxCands
    /\ LET n == Now(c)
       IN  ClientStep(c, [n EXCEPT
               !.md = [@ EXCEPT !.gathered = @ + 1],
               !.emits = <<[ev |-> "webrtc-ice-candidate",
                            data |-> [to |-> Target(n.pg), from |-> Ident(c),
                                      candidate |-> n.md.gathered + 1]]>>])

\* The client goes away without an end-call (its tab is closed, its machine
\* is gone): the relay runs "disconnecting" for its socket, which then leaves
\* its rooms; nothing of the client is left.
ConnectionLost(c) ==
    /\ c \in connected
    /\ connected' = connected \ {c}
    /\ rooms' = [rooms EXCEPT ![c] = {}]
    /\ inbox' = [Deliver(inbox, OnDisconnecting(c).out, connected \ {c})
                    EXCEPT ![c] = <<>>]
    /\ page' = [page EXCEPT ![c] = NoPage]
    /\ modal' = [modal EXCEPT ![c] = NoModal]
    /\ sock' = [sock EXCEPT ![c] = NoSock]
    /\ tasks' = [tasks EXCEPT ![c] = {}]
    /\ camera' = [camera EXCEPT ![c] = 0]
    /\ UNCHANGED <<delivered, last, crashed>>

\* The clients are connected and registered: SocketProvider (97-107) has
\* emitted "setup" and the relay has joined each socket to its user's room.
CallInit ==
    /\ connected = CallClients
    /\ rooms = [s \in Sessions |->
                   IF s \in CallClients THEN {s, Account[s]} ELSE {}]
    /\ RelayInit
    /\ ClientInit

CallNext ==
    \E c \in CallClients :
        \/ OpenChat(c)
        \/ InitiateCall(c)
        \/ HandleIncomingCall(c)
        \/ HandleCallAccepted(c)
        \/ HandleEndCall(c)
        \/ HandlePrepareCall(c)
        \/ HandleReadyForOffer(c)
        \/ HandleOffer(c)
        \/ HandleAnswer(c)
        \/ HandleCandidate(c)
        \/ HandlePeerLeave(c)
        \/ AcceptCall(c)
        \/ HangUp(c)
        \/ StartCall(c)
        \/ StartCallMedia(c)
        \/ HandleOfferMedia(c)
        \/ SendOffer(c)
        \/ SendAnswer(c)
        \/ IceCandidate(c)
        \/ ConnectionLost(c)

CallSpec == CallInit /\ [][CallNext]_vars

\* ------------------------------------------------- one call, nothing fails
\* The call of the scenario of section 8: u1 (s1) dials u2 (s2) and u2
\* accepts; nobody hangs up, no connection is lost, getUserMedia is granted
\* (a step of StartCallMedia / HandleOfferMedia that adds a live stream).
DialNext ==
    \/ \E c \in CallClients : OpenChat(c)
    \/ InitiateCall("s1")
    \/ \E c \in CallClients : HandleIncomingCall(c)
    \/ \E c \in CallClients : AcceptCall(c)
    \/ \E c \in CallClients : HandleCallAccepted(c)
    \/ \E c \in CallClients : StartCall(c)
    \/ \E c \in CallClients : StartCallMedia(c) /\ camera'[c] = camera[c] + 1
    \/ \E c \in CallClients : HandlePrepareCall(c)
    \/ \E c \in CallClients : HandleReadyForOffer(c)
    \/ \E c \in CallClients : SendOffer(c)
    \/ \E c \in CallClients : HandleOffer(c)
    \/ \E c \in CallClients : HandleOfferMedia(c) /\ camera'[c] = camera[c] + 1
    \/ \E c \in CallClients : SendAnswer(c)
    \/ \E c \in CallClients : HandleAnswer(c)
    \/ \E c \in CallClients : IceCandidate(c)
    \/ \E c \in CallClients : HandleCandidate(c)

\* Every callback that is ready runs (the event loop of each browser, the
\* relay's socket handlers), and the users do what the scenario says.
DialSpec == CallInit /\ [][DialNext]_vars /\ WF_vars(DialNext)

\* ------------------------------------------------- sending messages
\* What the user can have typed; text.trim() of it.
Texts == {"", " ", "hi"}
Trim(text) == IF text = " " THEN "" ELSE text

\* The record the REST backend answers a successful POST with: the message
\* as persisted, its sender and its chat populated.
Persisted(c, text) ==
    [chat |-> Some([users |-> Some(<<Some([_id |-> "u1"]),
                                     Some([_id |-> "u2"])>>)]),
     sender |-> Some([_id |-> Ident(c)]),
     content |-> text]

\* SendMessage gone wrong: the message is shown and emitted before the
\* request is made.
SendMessageOptimistic(c, text) ==
    /\ c \in connected
    /\ page[c].activeChat
    /\ ~page[c].sending
    /\ Trim(text) # ""
    /\ Len(page[c].messages) < MaxSends
    /\ inbox' = Deliver(inbox, OnNewMessage(Some(Persisted(c, text))).out,
                        connected)
    /\ page' = [page EXCEPT ![c].sending = TRUE,
                            ![c].messages = Append(@, Persisted(c, text))]
    /\ tasks' = [tasks EXCEPT ![c] = @ \cup {[k |-> "post", text |-> text]}]
    /\ UNCHANGED <<relayVars, modal, sock, camera>>

\* sendMessage (913-920) up to the await of api.post; the send button is
\* disabled while `sending`.
SendMessage(c, text) ==
    /\ c \in connected
    /\ page[c].activeChat
    /\ ~page[c].sending
    /\ Trim(text) # ""
    /\ Len(page[c].messages) < MaxSends
    /\ page' = [page EXCEPT ![c].sending = TRUE]
    /\ tasks' = [tasks EXCEPT ![c] = @ \cup {[k |-> "post", text |-> text]}]
    /\ UNCHANGED <<relayVars, inbox, modal, sock, camera>>

\* The request settles: the backend has persisted the message and answers
\* with the record, or the request fails.
PostSettles(c) ==
    /\ c \in connected
    /\ \E t \in tasks[c], ok \in BOOLEAN :
        /\ t.k = "post"
        /\ tasks' = [tasks EXCEPT ![c] =
               (@ \ {t}) \cup {[k |-> "posted", ok |-> ok,
                                 data |-> IF ok THEN Some(Persisted(c, t.text))
                                          ELSE None]}]
    /\ UNCHANGED <<relayVars, inbox, page, modal, sock, camera>>

\* sendMessage after the await (921-932): with the record, append it to the
\* list and emit "new message", which the relay fans out (server.js 99-107);
\* on failure the catch logs. finally: setSending(false).
SendMessageResumes(c) ==
    /\ c \in connected
    /\ \E t \in tasks[c] :
        /\ t.k = "posted"
        /\ tasks' = [tasks EXCEPT ![c] = @ \ {t}]
        /\ IF t.ok
               THEN /\ page' = [page EXCEPT
                                   ![c].sending = FALSE,
                                   ![c].messages = Append(@, Val(t.data))]
                    /\ inbox' = Deliver(inbox, OnNewMessage(t.data).out,
                                        connected)
           ELSE /\ page' = [page EXCEPT ![c].sending = FALSE]
                /\ UNCHANGED inbox
    /\ UNCHANGED <<relayVars, modal, sock, camera>>

\* handleMessage (939-958): a message of the chat that is open goes to the
\* list.
HandleMessage(c) ==
    /\ Receives(c, "message received")
    /\ inbox' = [inbox EXCEPT ![c] = Tail(@)]
    /\ page' = [page EXCEPT ![c].messages =
                    IF page[c].activeChat THEN Append(@, Data(c)) ELSE @]
    /\ UNCHANGED <<relayVars, modal, sock, tasks, camera>>

ChatNext ==
    \E c \in CallClients :
        \/ OpenChat(c)
        \/ \E text \in Texts : SendMessage(c, text)
        \/ PostSettles(c)
        \/ SendMessageResumes(c)
        \/ HandleMessage(c)

ChatSpec == CallInit /\ [][ChatNext]_vars

\* ------------------------------------------------- one call, with the Mute button
\* The call of DialNext, and the users press Mute / Unmute when they please.
MuteNext ==
    \/ DialNext
    \/ \E c \in CallClients : ToggleMute(c)

MuteSpec == CallInit /\ [][MuteNext]_vars

\* ------------------------------------------------- both sessions stay connected
\* The socket listeners of client c (App.jsx 262-265, 296-301, 831-834): what
\* its event loop runs for the event at the head of its inbox.
Handles(c) ==
    \/ HandleIncomingCall(c)
    \/ HandleCallAccepted(c)
    \/ HandleEndCall(c)
    \/ HandlePrepareCall(c)
    \/ HandleReadyForOffer(c)
    \/ HandleOffer(c)
    \/ HandleAnswer(c)
    \/ HandleCandidate(c)

\* The call life cycle while no connection is lost.
HangNext ==
    \E c \in CallClients :
        \/ OpenChat(c)
        \/ InitiateCall(c)
        \/ AcceptCall(c)
        \/ HangUp(c)
        \/ Handles(c)
        \/ StartCall(c)
        \/ StartCallMedia(c)
        \/ HandleOfferMedia(c)
        \/ SendOffer(c)
        \/ SendAnswer(c)
        \/ IceCandidate(c)

\* Each browser's event loop runs the listener of an event that has arrived;
\* the users press buttons when they please.
HangSpec ==
    CallInit /\ [][HangNext]_vars /\ \A c \in CallClients : WF_vars(Handles(c))

\* ------------------------------------------------- two devices of one user
\* u2 is signed in on two devices: s2 and s3 are both in the identity room
\* u2 (server.js 84-90), and the relay sends what is addressed to u2 to both.
\* u1 (s1) dials once; nobody presses a button other than Accept, and the
\* one connection that may go is that of u2's second device.
DeviceInit ==
    /\ connected = Sessions
    /\ rooms = [s \in Sessions |-> {s, Account[s]}]
    /\ RelayInit
    /\ ClientInit

DeviceNext ==
    \/ OpenChat("s1")
    \/ InitiateCall("s1") /\ sock["s1"].prep = 0
    \/ ConnectionLost("s3")
    \/ \E c \in Sessions :
        \/ HandleIncomingCall(c)
        \/ AcceptCall(c)
        \/ HandleCallAccepted(c)
        \/ StartCall(c)
        \/ StartCallMedia(c)
        \/ HandlePrepareCall(c)
        \/ HandleReadyForOffer(c)
        \/ SendOffer(c)
        \/ HandleOffer(c)
        \/ HandleOfferMedia(c)
        \/ SendAnswer(c)
        \/ HandleAnswer(c)
        \/ HandleEndCall(c)
        \/ HandlePeerLeave(c)

DeviceSpec == DeviceInit /\ [][DeviceNext]_vars

\* ------------------------------------------------- a third user
\* u1 has conversations with u2 and with u3, who is signed in on s3. u1 is
\* the one who dials, whichever conversation is open; everybody answers,
\* accepts and hangs up as they please, and no connection is lost.
ThirdInit ==
    /\ connected = Sessions
    /\ rooms = [s \in Sessions |-> {s, IF s = "s3" THEN "u3" ELSE Account[s]}]
    /\ RelayInit
    /\ ClientInit

ThirdNext ==
    \/ OpenChat("s1")
    \/ \E to \in {"u2", "u3"} : InitiateCallTo("s1", to)
    \/ \E c \in Sessions :
        \/ HandleIncomingCall(c)
        \/ AcceptCall(c)
        \/ HangUp(c)
        \/ HandleEndCall(c)
        \/ HandleCallAccepted(c)
        \/ StartCall(c)
        \/ StartCallMedia(c)
        \/ HandlePrepareCall(c)
        \/ HandleReadyForOffer(c)
        \/ SendOffer(c)
        \/ HandleOffer(c)
        \/ HandleOfferMedia(c)
        \/ SendAnswer(c)
        \/ HandleAnswer(c)

ThirdSpec == ThirdInit /\ [][ThirdNext]_vars

\* ------------------------------------------------------- the relay's claims
\* The member list of a message whose chat.users is present.
UsersOf(m) == Val(Val(Val(m).chat).users)

HasMemberList(m) ==
    IsSome(m) /\ IsSome(Val(m).chat) /\ IsSome(Val(Val(m).chat).users)

\* A Message of the data model: a sender, and a member list of user records.
IsMessage(m) ==
    /\ HasMemberList(m)
    /\ IsSome(Val(m).sender)
    /\ \A i \in 1..Len(UsersOf(m)) : IsSome(UsersOf(m)[i])

SenderOf(m)    == Val(Val(m).sender)._id
MemberAt(m, i) == Val(UsersOf(m)[i])._id

\* The entries of the member list that name someone other than the sender.
Others(m) == {i \in 1..Len(UsersOf(m)) : MemberAt(m, i) # SenderOf(m)}

RECURSIVE SumLen(_, _)
SumLen(d, S) ==
    IF S = {} THEN 0
    ELSE LET s == CHOOSE x \in S : TRUE IN Len(d[s]) + SumLen(d, S \ {s})

\* The members are N > 1 distinct identities, the sender among them, and each
\* has exactly one live session.
OneSessionEach(m) ==
    /\ Len(UsersOf(m)) > 1
    /\ \A i, j \in 1..Len(UsersOf(m)) : MemberAt(m, i) = MemberAt(m, j) => i = j
    /\ \E i \in 1..Len(UsersOf(m)) : MemberAt(m, i) = SenderOf(m)
    /\ \A i \in 1..Len(UsersOf(m)) : Cardinality(Members(MemberAt(m, i))) = 1

\* C1: a "new message" with a sender and a member list of user records gives
\* every session, for each listed member other than the sender whose identity
\* room it is in, exactly one "message received" carrying the message as it
\* came in, and nothing else; with N > 1 distinct members, one live session
\* each, that is N - 1 deliveries in all.
C1_FanOut ==
    (last.ev = "new message" /\ IsMessage(last.data)) =>
        /\ ~crashed
        /\ \A s \in Sessions :
            /\ Len(delivered[s]) =
                   Cardinality({i \in Others(last.data) :
                                    MemberAt(last.data, i) \in rooms[s]})
            /\ \A k \in 1..Len(delivered[s]) :
                   delivered[s][k] =
                       [ev |-> "message received", data |-> Val(last.data)]
        /\ OneSessionEach(last.data) =>
               SumLen(delivered, Sessions) = Len(UsersOf(last.data)) - 1

\* Two members with one session each: the other member's session got the
\* message, and that is the only delivery.
C1_Witness ==
    /\ last.ev = "new message"
    /\ IsMessage(last.data)
    /\ OneSessionEach(last.data)
    /\ SumLen(delivered, Sessions) = 1
    /\ \E s \in Sessions :
           delivered[s] = <<[ev |-> "message received", data |-> Val(last.data)]>>

\* C2: a call-control event with target `to` reaches every session in the
\* room named `to`, once, reaches no session outside it, and changes neither
\* the rooms nor the set of connections.
C2_CallRouting ==
    [][(last'.ev \in CallEvents /\ IsSome(last'.data)) =>
          /\ rooms' = rooms
          /\ connected' = connected
          /\ ~crashed'
          /\ \A s \in Sessions :
                IF Val(last'.data).to \in rooms[s]
                    THEN /\ Len(delivered'[s]) = 1
                         /\ delivered'[s][1].ev = RelayedEvent(last'.ev)
                ELSE delivered'[s] = <<>>]_vars

\* An end-call reached the two sessions of its target and not the third.
C2_Witness ==
    /\ last.ev = "end-call"
    /\ IsSome(last.data)
    /\ \E s, t, u \in Sessions :
        /\ s # t
        /\ Len(delivered[s]) = 1
        /\ Len(delivered[t]) = 1
        /\ u \in connected
        /\ delivered[u] = <<>>

\* The events the relay forwards with the payload untouched, and the ones it
\* rebuilds.
Forwarded == {"webrtc-offer", "webrtc-answer", "webrtc-ice-candidate", "end-call"}
Rebuilt   == CallEvents \ Forwarded

\* The fields of the sender's payload the relay keeps.
KeptFields(ev) ==
    IF ev = "call-user" THEN {"from", "name", "callType"} ELSE {"from"}

C4_OnePeerGone ==
    [][last'.ev = "disconnecting" =>
          \A t \in Sessions \ {last'.src} :
              IF rooms[t] \cap rooms[last'.src] # {}
                  THEN Len(delivered'[t]) = 1
              ELSE delivered'[t] = <<>>]_vars

\* C9 as claimed: no event a session sends lets an exception escape a handler.
C9_NeverFatal == ~crashed

\* C10 as claimed: no session in the sender's identity room receives the
\* message.
C10_NoEcho ==
    (last.ev = "new message" /\ IsSome(last.data) /\ IsSome(Val(last.data).sender)) =>
        \A s \in Members(SenderOf(last.data)) : delivered[s] = <<>>

\* C10, amended: nothing is emitted to the sender's identity room, so a
\* session registered under the sender's identity receives the message only
\* when it is also in the identity room of another listed member.
C10_NoEchoUnlessOtherRoom ==
    (last.ev = "new message" /\ HasMemberList(last.data)
        /\ IsSome(Val(last.data).sender)) =>
        \A s \in Sessions :
            delivered[s] # <<>> =>
                \E i \in 1..Len(UsersOf(last.data)) :
                    /\ IsSome(UsersOf(last.data)[i])
                    /\ MemberAt(last.data, i) # SenderOf(last.data)
                    /\ MemberAt(last.data, i) \in rooms[s]

\* The sender is listed, its session is in its identity room and in the
\* chat room, and only the other member's session got the message.
C10_Witness ==
    /\ last.ev = "new message"
    /\ IsMessage(last.data)
    /\ \E i \in 1..Len(UsersOf(last.data)) : MemberAt(last.data, i) = SenderOf(last.data)
    /\ \E s, t \in Sessions :
        /\ {SenderOf(last.data), "c1"} \subseteq rooms[s]
        /\ delivered[s] = <<>>
        /\ "c1" \in rooms[t]
        /\ Len(delivered[t]) = 1

\* The sessions a "new message" m reaches, with the rooms as they are.
Recipients(m) == {s \in Sessions : OnNewMessage(m).out[s] # <<>>}

\* The identities m is addressed to: the listed members other than the sender.
Addressees(m) == {MemberAt(m, i) : i \in Others(m)}

\* C11 as claimed: no "join chat", by any session with any room id, adds a
\* recipient to a message or removes one.
C11_JoinChatNeverMatters ==
    [][last'.ev = "join chat" =>
          \A m \in Messages : IsMessage(m) => Recipients(m)' = Recipients(m)]_vars

\* C11, amended: the sessions that receive a message are those in the room
\* named by the id of a listed non-sender member, however they entered it. A
\* "join chat" with a room id adds the joining session to that room and
\* changes no other membership: with a conversation id it adds no recipient
\* and removes none; with an identity id it makes the joining session a
\* recipient of what is addressed to that identity, as "setup" does.
C11_RecipientsByIdentityRoom ==
    [][/\ (last'.ev = "new message" /\ IsMessage(last'.data)) =>
              {s \in Sessions : delivered'[s] # <<>>} =
                  UNION {Members(a)' : a \in Addressees(last'.data)}
       /\ last'.ev = "join chat" =>
              \A a \in MemberIds \cup Chats :
                  Members(a)' = IF a = last'.data
                                    THEN Members(a) \cup {last'.src}
                                ELSE Members(a)]_vars

\* A session that is no recipient of a message to u2 has joined the chat
\* room and is still none, while the message has a recipient.
C11_Witness ==
    /\ last.ev = "join chat"
    /\ last.data \in Chats
    /\ ~last.again
    /\ \E m \in Messages :
        /\ IsMessage(m)
        /\ Addressees(m) = {"u2"}
        /\ Recipients(m) # {}
        /\ last.src \notin Recipients(m)

\* C12 as claimed: a message whose member list is absent or empty reaches
\* nobody, sender included, and the relay logs the malformed message.
C12_MalformedLogged ==
    (/\ last.ev = "new message"
     /\ IsSome(last.data)
     /\ (~HasMemberList(last.data) \/ UsersOf(last.data) = <<>>)) =>
        /\ ~crashed
        /\ delivered = NoDelivery
        /\ last.log # <<>>

\* The listed non-sender members of m nobody is connected as.
Absent(m) == {i \in Others(m) : Members(MemberAt(m, i)) = {}}

RECURSIVE SumMembers(_, _)
SumMembers(m, I) ==
    IF I = {} THEN 0
    ELSE LET i == CHOOSE x \in I : TRUE
         IN  Cardinality(Members(MemberAt(m, i))) + SumMembers(m, I \ {i})

\* C13: when a listed member has no live session, the relay does not fail,
\* every session of every other listed non-sender member still gets the
\* message, and there is no delivery beyond those.
C13_AbsentMemberSkipped ==
    (last.ev = "new message" /\ IsMessage(last.data) /\ Absent(last.data) # {}) =>
        /\ ~crashed
        /\ \A i \in Others(last.data) : \A s \in Members(MemberAt(last.data, i)) :
              \E k \in 1..Len(delivered[s]) :
                  delivered[s][k] =
                      [ev |-> "message received", data |-> Val(last.data)]
        /\ SumLen(delivered, Sessions) = SumMembers(last.data, Others(last.data))

\* The first listed member, u3, has no session; the second, u2, has two, and
\* both got the message.
C13_Witness ==
    /\ last.ev = "new message"
    /\ IsMessage(last.data)
    /\ SenderOf(last.data) = "u1"
    /\ Len(UsersOf(last.data)) = 2
    /\ MemberAt(last.data, 1) = "u3"
    /\ MemberAt(last.data, 2) = "u2"
    /\ Cardinality(Members("u2")) = 2
    /\ \A s \in Members("u2") : Len(delivered[s]) = 1

\* userData carries an identity id.
HasId(userData) == IsSome(userData) /\ IsSome(Val(userData)._id)
IdOf(userData)  == Val(Val(userData)._id)

Ack == [ev |-> "connected", data |-> None]

\* C14: "setup" with an identity id adds the sending session to the room of
\* that id and to no other, and acknowledges with one "connected" to that
\* session only; a session leaves no room while it stays connected, and
\* every call event and message addressed to an identity reaches every
\* session in its room.
C14_Register ==
    [][/\ (last'.ev = "setup" /\ HasId(last'.data)) =>
              /\ rooms' = [rooms EXCEPT ![last'.src] = @ \cup {IdOf(last'.data)}]
              /\ delivered' = [NoDelivery EXCEPT ![last'.src] = <<Ack>>]
       /\ \A s \in connected \cap connected' : rooms[s] \subseteq rooms'[s]
       /\ (last'.ev \in CallEvents /\ IsSome(last'.data)) =>
              \A s \in Sessions :
                  Val(last'.data).to \in rooms'[s] => Len(delivered'[s]) = 1
       /\ (last'.ev = "new message" /\ IsMessage(last'.data)) =>
              \A s \in Sessions :
                  rooms'[s] \cap Addressees(last'.data) # {} => delivered'[s] # <<>>]_vars

\* A session has registered for the first time under an identity another
\* session is registered under already: it alone got the acknowledgement.
C14_Witness ==
    /\ last.ev = "setup"
    /\ HasId(last.data)
    /\ ~last.again
    /\ IdOf(last.data) \in rooms[last.src]
    /\ delivered[last.src] = <<Ack>>
    /\ \E t \in Sessions \ {last.src} :
        /\ IdOf(last.data) \in rooms[t]
        /\ delivered[t] = <<>>

\* C15: "setup" without an identity id changes no room membership and emits
\* nothing, so the session is in no identity room it was not in before.
C15_SetupWithoutId ==
    [][(last'.ev = "setup" /\ ~HasId(last'.data)) =>
          /\ rooms' = rooms
          /\ connected' = connected
          /\ delivered' = NoDelivery
          /\ ~crashed']_vars

\* A session in no room but its own has sent "setup" without an id.
C15_Witness ==
    /\ last.ev = "setup"
    /\ ~HasId(last.data)
    /\ last.src \in connected
    /\ rooms[last.src] = {last.src}
    /\ delivered = NoDelivery

\* C16: a "join chat" or "setup" for a room the session is in already leaves
\* every membership as it was, and an event emitted to any room of the
\* session reaches it once.
C16_JoinIdempotent ==
    [][(\/ last'.ev = "join chat" /\ last'.data \in rooms[last'.src]
        \/ last'.ev = "setup" /\ HasId(last'.data)
               /\ IdOf(last'.data) \in rooms[last'.src]) =>
          /\ rooms' = rooms
          /\ \A s \in Sessions : \A room \in rooms[s] :
                s = last'.src =>
                    (Len(Emit(NoDelivery, room, "any", None)[s]))' = 1]_vars

\* A session has joined a chat room it was in already.
C16_Witness ==
    /\ last.ev = "join chat"
    /\ last.again
    /\ last.data \in Chats
    /\ last.data \in rooms[last.src]

\* C17: every dial is delivered as one "incoming-call", carrying the
\* caller's id, name and call type, to every session in the room of the
\* identity dialled, and to no other; also when the event handled just
\* before was another caller's dial to the same identity.
C17_EveryDialDelivered ==
    [][(last'.ev = "call-user" /\ IsSome(last'.data)) =>
          /\ ~crashed'
          /\ \A s \in Sessions :
                delivered'[s] =
                    IF Val(last'.data).to \in rooms[s]
                        THEN <<[ev |-> "incoming-call",
                                data |-> [from |-> Val(last'.data).from,
                                          name |-> Val(last'.data).name,
                                          callType |-> Val(last'.data).callType]]>>
                    ELSE <<>>]_vars

\* u3's dial to an identity with two sessions was handled right after
\* another caller's dial to it: both sessions got u3's incoming-call.
C17_Witness ==
    /\ last.ev = "call-user"
    /\ last.again
    /\ Val(last.data).from = "u3"
    /\ \E s, t \in Members(Val(last.data).to) :
        /\ s # t
        /\ Len(delivered[s]) = 1
        /\ delivered[s][1].data.from = "u3"
        /\ delivered[t] = delivered[s]


\* ------------------------------------------------------ the clients' claims
\* Client c has a call on screen (any phase but Ended / Idle).
InCallUI(c) == c \in connected /\ page[c].show

\* Caller side before the callee's accept has arrived.
Dialing(c) == InCallUI(c) /\ IsSome(page[c].callee) /\ ~page[c].callAccepted

\* An event that will close c's call is on its way to c.
EndPending(c) ==
    \E k \in 1..Len(inbox[c]) : inbox[c][k].ev \in {"end-call", "peer-disconnected"}

\* C5 as claimed: when the only session of identity X closes while a party
\* is in a Ringing, Negotiating or Active call with X, the party is driven to
\* Ended: an event that ends its call is on its way to it.
C5_PeerLossEndsCall ==
    [][\A c \in CallClients :
          (/\ InCallUI(c)
           /\ ~Dialing(c)
           /\ Members(Target(page[c])) # {}
           /\ Members(Target(page[c])) \cap connected' = {}) => EndPending(c)']_vars

\* C6 as claimed: every step that takes a client's call to Ended leaves none
\* of its local media streams live.
C6_EndedStopsMedia ==
    [][\A c \in CallClients :
          (page[c].show /\ ~page'[c].show) => camera'[c] = 0]_vars

\* C7 as claimed: once the connection has its remote description, every
\* candidate that arrived for it, before or after, has been added once, in
\* arrival order.
C7_CandidatesKept ==
    \A c \in CallClients :
        (InCallUI(c) /\ modal[c].remoteSet) => modal[c].added = modal[c].seen

\* C8 as claimed: a client whose media acquisition failed has its call Ended
\* (and has told the peer): no call stays open after the failure.
C8_MediaFailureEndsCall ==
    \A c \in CallClients : InCallUI(c) => ~modal[c].mediaDenied

\* The relay has delivered an incoming-call of another kind than dialled.
WrongKind(c) ==
    \E k \in 1..Len(inbox[c]) :
        /\ inbox[c][k].ev = "incoming-call"
        /\ inbox[c][k].data # [from |-> "u1", name |-> "n", callType |-> "video"]

BothActive == modal["s1"].inCall /\ modal["s2"].inCall

\* C18: with both users connected and registered, nothing failing and every
\* ready callback run: once u1 has dialled u2, u2 gets the incoming-call with
\* the kind dialled and, through accept, call-accepted, prepare-call,
\* ready-for-offer, offer and answer, both sides come to inCall.
C18_DialReachesActive ==
    /\ [](~WrongKind("s2"))
    /\ (page["s1"].show /\ IsSome(page["s1"].callee)) ~> BothActive

\* Both sides are in the call, each with its live local stream, the caller
\* after its handshake.
C18_Witness ==
    /\ BothActive
    /\ page["s1"].callAccepted
    /\ modal["s1"].ready
    /\ modal["s1"].remoteSet
    /\ modal["s2"].remoteSet
    /\ camera["s1"] = 1
    /\ camera["s2"] = 1

\* This step puts a webrtc-offer of client c on its way.
OfferSent(c) ==
    \E s \in Sessions :
        /\ Len(inbox'[s]) > Len(inbox[s])
        /\ inbox'[s][Len(inbox'[s])].ev = "webrtc-offer"
        /\ inbox'[s][Len(inbox'[s])].data.from = Ident(c)

\* C19: a client sends a webrtc-offer only from a call on screen, after a
\* call-accepted has come in for it, it has sent prepare-call, and a
\* ready-for-offer has come in since.
C19_OfferAfterHandshake ==
    [][\A c \in CallClients :
          OfferSent(c) =>
              /\ page[c].show
              /\ modal[c].accepted
              /\ modal[c].prepared
              /\ modal[c].ready]_vars

\* The caller's offer is with the callee; the caller had sent prepare-call
\* and got ready-for-offer.
C19_Witness ==
    /\ \E k \in 1..Len(inbox["s2"]) : inbox["s2"][k].ev = "webrtc-offer"
    /\ page["s1"].callAccepted
    /\ modal["s1"].accepted
    /\ modal["s1"].prepared
    /\ modal["s1"].ready
    /\ modal["s1"].localSet = "offer"

\* The phase of c's call: 0 no call (Idle, Ended), 1 Dialing or Ringing,
\* 2 Negotiating, 3 Active.
Rank(c) ==
    IF ~page[c].show THEN 0
    ELSE IF modal[c].inCall THEN 3
    ELSE IF \/ page[c].callAccepted
            \/ modal[c].remoteSet
            \/ modal[c].localSet # "none" THEN 2
    ELSE 1

\* C20 as claimed: while a call is on, no step takes it to an earlier phase
\* or gives it another remote party.
C20_PhaseOnlyAdvances ==
    [][\A c \in CallClients :
          (page[c].show /\ page'[c].show) =>
              /\ Rank(c)' >= Rank(c)
              /\ Target(page[c])' = Target(page[c])]_vars


\* The events the claim lists: they end a call or belong to its negotiation.
AfterEnd == {"end-call", "webrtc-offer", "webrtc-answer", "webrtc-ice-candidate"}

\* Client c, still connected, has no call on screen and takes ev from its
\* inbox in this step.
HandlesIdle(c, ev) ==
    /\ c \in connected'
    /\ ~page[c].show
    /\ inbox[c] # <<>>
    /\ Head(inbox[c]).ev = ev
    /\ inbox'[c] = Tail(inbox[c])

\* The call a page shows: whether one is on screen, and its parties. The flag
\* callAccepted is read by a mounted CallModal only, and initiateCall and
\* handleIncomingCall clear it before they mount one.
CallOf(pg) == <<pg.show, pg.caller, pg.callee>>

C22_PendingStepAborts ==
    [][\A c \in CallClients : \A t \in tasks[c] :
          (c \in connected' /\ t \notin tasks'[c] /\ ~Mounted(c, t.gen)) =>
              /\ camera'[c] = camera[c]
              /\ \A s \in Sessions \ {c} : inbox'[s] = inbox[s]]_vars

\* C23: no two sessions of one identity are both in Negotiating or Active.
C23_OneCallPerIdentity ==
    \A c, d \in Sessions :
        (c # d /\ Ident(c) = Ident(d)) => ~(Rank(c) >= 2 /\ Rank(d) >= 2)

\* Client c sends a webrtc-answer in this step: a pending step of c ends
\* and an answer from c's identity is delivered.
AnswerSent(c) ==
    \E s \in Sessions \ {c} :
        /\ tasks'[c] # tasks[c]
        /\ Len(inbox'[s]) > Len(inbox[s])
        /\ inbox'[s][Len(inbox'[s])].ev = "webrtc-answer"
        /\ inbox'[s][Len(inbox'[s])].data.from = Ident(c)

\* C24: while a callee's accept prompt is pending (the modal was mounted for
\* an incoming call and Accept has not been pressed), no step of that client
\* gives the modal a local stream or sends a webrtc-answer.
C24_MediaOnlyAfterAccept ==
    [][\A c \in Sessions :
          (page[c].show /\ modal[c].incoming /\ page'[c].show) =>
              /\ modal'[c].localStream = modal[c].localStream
              /\ ~AnswerSent(c)]_vars

\* C25: a client with a call on screen is Active (inCall) exactly when its
\* connection has observed a remote media track.
C25_ActiveOnFirstTrack ==
    \A c \in CallClients :
        InCallUI(c) => (modal[c].inCall <=> modal[c].tracked)

\* Client c presses Decline / End Call in this step: its call leaves the
\* screen, and neither a listener nor a pending step of c has run.
HangsUp(c) ==
    /\ c \in connected'
    /\ page[c].show
    /\ ~page'[c].show
    /\ inbox'[c] = inbox[c]
    /\ tasks'[c] = tasks[c]

\* An end-call is among the events client d has yet to handle.
EndCallArrived(d) == \E k \in 1..Len(inbox[d]) : inbox[d][k].ev = "end-call"

\* C26: while both sessions stay connected, a hang-up in any phase with a
\* call on screen delivers an end-call to every session of the other party's
\* identity, and a party with a call on screen and an end-call delivered
\* reaches Ended.
C26_HangUpEndsBoth ==
    /\ [][\A c \in CallClients : HangsUp(c) =>
              \A d \in Members(Target(page[c])) :
                  /\ d # c
                  /\ inbox'[d] = Append(inbox[d],
                                        [ev |-> "end-call",
                                         data |-> [to |-> Target(page[c])]])]_vars
    /\ \A d \in CallClients :
          (page[d].show /\ EndCallArrived(d)) ~> ~page[d].show

\* Both parties have the call on screen and one has just hung up: its
\* end-call is waiting at the other.
C26_Witness ==
    \E c, d \in CallClients :
        /\ sock[c].prep > 0
        /\ ~page[c].show
        /\ page[d].show
        /\ modal[d].remoteSet
        /\ EndCallArrived(d)

\* Client c handles an end-call or a peer-disconnected in this step.
TakesEnd(c) ==
    /\ inbox[c] # <<>>
    /\ Head(inbox[c]).ev \in {"end-call", "peer-disconnected"}
    /\ inbox'[c] = Tail(inbox[c])
    /\ tasks'[c] = tasks[c]

\* C27: a connected client whose call is on screen and not yet Active
\* (Dialing, Ringing, Negotiating) loses it only in a step that is its own
\* hang-up or its handling of an end-call or a peer-disconnected; any other
\* step, whoever takes it, leaves the call on screen.
C27_NoTimeout ==
    [][\A c \in CallClients :
          (c \in connected' /\ page[c].show /\ ~modal[c].inCall
                            /\ ~page'[c].show) =>
              HangsUp(c) \/ TakesEnd(c)]_vars

\* The call rings with nothing left to run: the caller is Dialing, the
\* callee's prompt is showing, no event is in flight and no step is pending.
C27_Witness ==
    /\ Dialing("s1")
    /\ InCallUI("s2")
    /\ modal["s2"].incoming
    /\ \A c \in CallClients : inbox[c] = <<>> /\ tasks[c] = {}

\* C29: a client with a call on screen that handles the peer-disconnected of
\* a session of an identity other than the call's remote party keeps the
\* call as it was.
C29_OnlyRemotePartysLeaveEnds ==
    [][\A c \in Sessions :
          (/\ c \in connected'
           /\ page[c].show
           /\ inbox[c] # <<>>
           /\ Head(inbox[c]).ev = "peer-disconnected"
           /\ inbox'[c] = Tail(inbox[c])
           /\ Ident(Head(inbox[c]).data.socketId) # Target(page[c])) =>
              /\ page'[c] = page[c]
              /\ modal'[c] = modal[c]]_vars

\* Session d has never ended a call: it has had no call, or its first call is
\* still on screen. It has sent no end-call.
NeverEnded(d) == sock[d].prep = 0 \/ (sock[d].prep = 1 /\ page[d].show)

\* C28: a client with a call on screen that handles an end-call while no
\* session of the call's remote party has ever ended a call (the end-call
\* was sent by someone else) keeps the call as it was.
C28_OnlyPeersEndCallEnds ==
    [][\A c \in Sessions :
          (/\ page[c].show
           /\ inbox[c] # <<>>
           /\ Head(inbox[c]).ev = "end-call"
           /\ inbox'[c] = Tail(inbox[c])
           /\ \A d \in Sessions :
                  Ident(d) = Target(page[c]) => NeverEnded(d)) =>
              /\ page'[c] = page[c]
              /\ modal'[c] = modal[c]]_vars

\* C30: a caller in Dialing that handles a call-accepted whose `from` is not
\* the identity it dialed stays in Dialing and starts nothing.
C30_AcceptOnlyFromCallee ==
    [][\A c \in Sessions :
          (/\ Dialing(c)
           /\ inbox[c] # <<>>
           /\ Head(inbox[c]).ev = "call-accepted"
           /\ inbox'[c] = Tail(inbox[c])
           /\ Head(inbox[c]).data.from # Val(page[c].callee)) =>
              /\ page'[c] = page[c]
              /\ tasks'[c] = tasks[c]]_vars

\* Client c takes ev from its inbox in this step.
Takes(c, ev) ==
    /\ c \in connected'
    /\ inbox[c] # <<>>
    /\ Head(inbox[c]).ev = ev
    /\ inbox'[c] = Tail(inbox[c])

\* C31: a client that handles a prepare-call sends one ready-for-offer to the
\* sessions of the sender's identity if it has a call on screen and none if
\* it has not, however many calls it has had before.
C31_OneReadyPerPrepare ==
    [][\A c \in CallClients :
          Takes(c, "prepare-call") =>
              \A s \in connected \ {c} :
                  Len(inbox'[s]) = Len(inbox[s]) +
                      (IF page[c].show /\ s \in Members(Head(inbox[c]).data.from)
                           THEN 1 ELSE 0)]_vars

\* The events the sessions other than c receive in this step.
Sent(c) ==
    [s \in Sessions \ {c} |->
        SubSeq(inbox'[s], Len(inbox[s]) + 1, Len(inbox'[s]))]

\* C33: a client that handles an end-call sends nothing; a client that
\* handles a peer-disconnected sends at most one event to any session, an
\* end-call, and only if it had a call on screen.
C33_EndSignallingTerminates ==
    [][\A c \in Sessions :
          /\ Takes(c, "end-call") =>
                 \A s \in Sessions \ {c} : Sent(c)[s] = <<>>
          /\ Takes(c, "peer-disconnected") =>
                 \A s \in Sessions \ {c} :
                     /\ Len(Sent(c)[s]) <= 1
                     /\ Sent(c)[s] # <<>> =>
                            /\ Sent(c)[s][1].ev = "end-call"
                            /\ page[c].show]_vars

\* A client with a call on screen is about to handle an end-call that its
\* peer sent on a peer-disconnected.
C33_Witness ==
    \E c, d \in Sessions :
        /\ c # d
        /\ page[c].show
        /\ inbox[c] # <<>>
        /\ Head(inbox[c]).ev = "end-call"
        /\ sock[d].prep > 0
        /\ ~page[d].show
        /\ Target(page[c]) = Ident(d)

\* The events that change room membership: a socket's own room on
\* connection, the rooms "setup" and "join chat" join, every room on
\* disconnect.
Joining == {"connection", "setup", "join chat", "disconnecting"}

\* C35: the rooms a socket is in change only in a step in which the relay
\* handles that socket's connection, "setup", "join chat" or disconnect;
\* handling "new message" or a call-control event leaves every socket's
\* rooms, and so every room's member set, as they were.
C35_RoomsFrame ==
    [][/\ \A s \in Sessions :
             rooms'[s] # rooms[s] => (last'.ev \in Joining /\ last'.src = s)
       /\ last'.ev \in {"new message"} \cup CallEvents =>
             \A room \in JoinIds \cup Sessions :
                 Members(room)' = Members(room)]_vars

\* The relay has just delivered a message or a call event to the members of
\* a room.
C35_Witness ==
    /\ last.ev \in {"new message"} \cup CallEvents
    /\ \E s \in Sessions : delivered[s] # <<>> /\ rooms[s] \ Sessions # {}

\* C32: a CallModal emits at most one webrtc-offer, and the step that emits
\* it belongs to a modal that was mounted by a dial and has handled a
\* call-accepted, and delivers the offer, addressed to the callee dialed, to
\* the sessions of that identity only.
C32_OneOfferToCallee ==
    /\ [](\A c \in Sessions : modal[c].offered <= 1)
    /\ [][\A c \in Sessions :
              modal'[c].offered > modal[c].offered =>
                  /\ modal[c].accepted
                  /\ \A s \in connected \ {c} :
                         IF s \in Members(modal[c].peerAtMount)
                             THEN /\ Len(Sent(c)[s]) = 1
                                  /\ Sent(c)[s][1].ev = "webrtc-offer"
                                  /\ Sent(c)[s][1].data.to = modal[c].peerAtMount
                         ELSE Sent(c)[s] = <<>>]_vars

\* A caller has sent its offer and a further ready-for-offer is still to be
\* handled: the callee, on its second call, has replied twice.
C32_Witness ==
    \E c \in Sessions :
        /\ page[c].show
        /\ modal[c].offered = 1
        /\ \E k \in 1..Len(inbox[c]) : inbox[c][k].ev = "ready-for-offer"

\* C34: whenever a call is on screen with isMuted true and a local stream,
\* the audio tracks of that stream are disabled.
C34_MutedMeansSilent ==
    \A c \in CallClients :
        (page[c].show /\ modal[c].isMuted /\ modal[c].localStream = "live")
            => ~modal[c].audioOn

\* The settled request client c's sendMessage resumes from in this step.
Resumed(c) == {t \in tasks[c] \ tasks'[c] : t.k = "posted"}

\* C36: a sendMessage that resumes from a successful request appends the
\* persisted record to the sender's list and the relay delivers that record,
\* once, to the sessions of the other member; one that resumes from a failed
\* request changes neither the list nor any inbox. No other step delivers a
\* message, and a list grows otherwise only by a message received.
C36_EmitAfterPersist ==
    [][\A c \in CallClients :
          /\ \A t \in Resumed(c) :
                 IF t.ok
                     THEN /\ t.data = Some(Persisted(c, Val(t.data).content))
                          /\ page'[c].messages =
                                 Append(page[c].messages, Val(t.data))
                          /\ \A s \in Sessions \ {c} :
                                 Sent(c)[s] =
                                     IF s \in Members(OtherUser(Ident(c)))
                                         THEN <<[ev |-> "message received",
                                                 data |-> Val(t.data)]>>
                                     ELSE <<>>
                 ELSE /\ page'[c].messages = page[c].messages
                      /\ \A s \in Sessions \ {c} : Sent(c)[s] = <<>>
          /\ Len(inbox'[c]) > Len(inbox[c]) =>
                 \E d \in CallClients \ {c} : \E t \in Resumed(d) : t.ok
          /\ page'[c].messages # page[c].messages =>
                 \/ \E t \in Resumed(c) : t.ok
                 \/ Takes(c, "message received")]_vars

\* A request of a client has failed and its sendMessage is about to resume,
\* with a message of an earlier send already delivered to the other member.
C36_Witness ==
    \E c \in CallClients :
        /\ \E t \in tasks[c] : t.k = "posted" /\ ~t.ok
        /\ \E m \in 1..Len(page[c].messages) :
               page[c].messages[m].sender = Some([_id |-> Ident(c)])
        /\ \E d \in CallClients \ {c} :
               \E m \in 1..Len(page[d].messages) :
                   page[d].messages[m].sender = Some([_id |-> Ident(c)])
====
